---- MODULE Spec2Model ----
(***************************************************************************)
(* Sales Tracker (src/main.py): one Streamlit script that is re-run from   *)
(* the top on every user interaction.  A run loads the uploaded ledger,    *)
(* validates its columns, derives `outstanding` and `exec_commission_calc`,*)
(* filters by date range and by executive, aggregates, and renders the     *)
(* page chosen in the navigation.                                          *)
(*                                                                         *)
(* Representation.                                                         *)
(*  - A text is a sequence of one-character strings, so that strip(),      *)
(*    lower(), to_numeric and to_datetime are computed on the characters.  *)
(*  - A cell is NaN, Num(v), Str(text), NaT or Ts(v).                      *)
(*  - Money is an integer number of currency units; a commission is an     *)
(*    integer number of thousandths of a unit (0.01 = 10 per mille,        *)
(*    0.002 = 2 per mille).  The arithmetic is exact: binary floating      *)
(*    point rounding and infinities are outside the model.                 *)
(*  - A timestamp is day * TicksPerDay + tick; tick 0 is midnight.         *)
(*  - A DataFrame is [columns |-> Seq(text), data |-> Seq(row)], a row     *)
(*    being the sequence of its cells in column order.                     *)
(***************************************************************************)
EXTENDS Integers, Sequences, FiniteSets

\* ------------------------------------------------------------------ bounds
MaxRows == 2
MaxDay == 2

\* ------------------------------------------------------------------- cells
None == [t |-> "None"]
NaN == [t |-> "nan"]
NaT == [t |-> "nat"]
Num(v) == [t |-> "num", v |-> v]
Str(s) == [t |-> "str", s |-> s]
Ts(v) == [t |-> "ts", v |-> v]

Range(s) == {s[i] : i \in 1..Len(s)}

\* the ticks of a day at which a ledger line can be stamped; 0 is midnight
Ticks == {0, 1}
TicksPerDay == Cardinality(Ticks)

\* ------------------------------------------------------------------- texts
UpperLetters ==
    <<"A","B","C","D","E","F","G","H","I","J","K","L","M",
      "N","O","P","Q","R","S","T","U","V","W","X","Y","Z">>
LowerLetters ==
    <<"a","b","c","d","e","f","g","h","i","j","k","l","m",
      "n","o","p","q","r","s","t","u","v","w","x","y","z">>
Whitespace == {" ", "\t"}
Digits == <<"0","1","2","3","4","5","6","7","8","9">>

LowerOf == [c \in Range(UpperLetters) |->
                LowerLetters[CHOOSE k \in 1..26 : UpperLetters[k] = c]]
UpperOf == [c \in Range(LowerLetters) |->
                UpperLetters[CHOOSE k \in 1..26 : LowerLetters[k] = c]]

\* str.lower()
lower(s) ==
    [i \in 1..Len(s) |-> IF s[i] \in DOMAIN LowerOf THEN LowerOf[s[i]] ELSE s[i]]

\* str.upper(), used to build the headers a user may upload
upper(s) ==
    [i \in 1..Len(s) |-> IF s[i] \in DOMAIN UpperOf THEN UpperOf[s[i]] ELSE s[i]]

RECURSIVE lstrip(_)
lstrip(s) ==
    IF s # <<>> /\ Head(s) \in Whitespace THEN lstrip(Tail(s)) ELSE s

RECURSIVE rstrip(_)
rstrip(s) ==
    IF s # <<>> /\ s[Len(s)] \in Whitespace
    THEN rstrip(SubSeq(s, 1, Len(s) - 1))
    ELSE s

\* strip() mistaken for lstrip(): trailing whitespace is kept
stripLeftOnly(s) == lstrip(s)

\* str.strip()
strip(s) == rstrip(lstrip(s))

IsDigit(c) == \E k \in 1..10 : Digits[k] = c
DigitVal(c) == (CHOOSE k \in 1..10 : Digits[k] = c) - 1
AllDigits(s) == s # <<>> /\ \A i \in 1..Len(s) : IsDigit(s[i])

RECURSIVE NatVal(_)
NatVal(s) ==
    IF s = <<>> THEN 0
    ELSE 10 * NatVal(SubSeq(s, 1, Len(s) - 1)) + DigitVal(s[Len(s)])

\* ------------------------------------------------------------ the columns
REQUIRED_COLUMNS ==
    << <<"d","a","t","e">>,
       <<"o","r","d","e","r"," ","n","o">>,
       <<"e","x","e","c","u","t","i","v","e"," ","n","a","m","e">>,
       <<"c","u","s","t","o","m","e","r"," ","n","a","m","e">>,
       <<"o","p","e","n","i","n","g"," ","b","a","l","a","n","c","e">>,
       <<"s","a","l","e","s"," ","v","a","l","u","e">>,
       <<"s","a","l","e","s"," ","r","e","t","u","r","n">>,
       <<"s","a","l","e","s"," ","i","n"," ","a","n","d"," ","o","u","t">>,
       <<"p","a","i","d"," ","a","m","o","u","n","t">>,
       <<"c","a","s","h","b","a","c","k">>,
       <<"c","o","m","m","i","s","s","i","o","n">> >>

c_date == REQUIRED_COLUMNS[1]
c_order_no == REQUIRED_COLUMNS[2]
c_executive_name == REQUIRED_COLUMNS[3]
c_customer_name == REQUIRED_COLUMNS[4]
c_opening_balance == REQUIRED_COLUMNS[5]
c_sales_value == REQUIRED_COLUMNS[6]
c_sales_return == REQUIRED_COLUMNS[7]
c_sales_in_and_out == REQUIRED_COLUMNS[8]
c_paid_amount == REQUIRED_COLUMNS[9]
c_cashback == REQUIRED_COLUMNS[10]
c_commission == REQUIRED_COLUMNS[11]
c_outstanding == <<"o","u","t","s","t","a","n","d","i","n","g">>
c_exec_commission_calc ==
    <<"e","x","e","c","_","c","o","m","m","i","s","s","i","o","n","_","c","a","l","c">>

num_cols ==
    <<c_opening_balance, c_sales_value, c_sales_return,
      c_sales_in_and_out, c_paid_amount, c_cashback, c_commission>>

\* -------------------------------------------------------------- DataFrame
HasCol(df, c) == \E i \in 1..Len(df.columns) : df.columns[i] = c
ColIdx(df, c) == CHOOSE i \in 1..Len(df.columns) : df.columns[i] = c
NRows(df) == Len(df.data)

\* df[c]: the column as a sequence of cells
GetCol(df, c) == [i \in 1..NRows(df) |-> df.data[i][ColIdx(df, c)]]

\* ---------------------------------------------------------- cell algebra
\* x + y and x - y on float cells: NaN is contagious
AddCell(x, y) == IF x.t = "num" /\ y.t = "num" THEN Num(x.v + y.v) ELSE NaN
SubCell(x, y) == IF x.t = "num" /\ y.t = "num" THEN Num(x.v - y.v) ELSE NaN
MulCell(x, k) == IF x.t = "num" THEN Num(x.v * k) ELSE NaN

\* Series.fillna(0)
fillna0(x) == IF x.t = "nan" THEN Num(0) ELSE x

\* the number a text denotes: an optional sign and decimal digits
IsNumericText(s) ==
    \/ AllDigits(s)
    \/ s # <<>> /\ Head(s) \in {"-", "+"} /\ AllDigits(Tail(s))
NumericTextVal(s) ==
    IF Head(s) = "-" THEN 0 - NatVal(Tail(s))
    ELSE IF Head(s) = "+" THEN NatVal(Tail(s))
    ELSE NatVal(s)

\* pd.to_numeric(x, errors='coerce') on one cell
to_numeric(x) ==
    IF x.t = "num" THEN x
    ELSE IF x.t = "str" /\ IsNumericText(x.s) THEN Num(NumericTextVal(x.s))
    ELSE NaN

\* the coercion without its trailing fillna(0): an unparsable cell stays NaN
CoerceNumericNoRefill(x) == to_numeric(fillna0(x))

\* pd.to_numeric(df[col].fillna(0), errors='coerce').fillna(0) on one cell
CoerceNumeric(x) == fillna0(to_numeric(fillna0(x)))

\* pd.to_datetime(x, errors="coerce") on one cell: a datetime cell is kept
\* with its time of day, a text "<day>" is midnight of that day, anything
\* else is NaT
to_datetime(x) ==
    IF x.t = "ts" THEN x
    ELSE IF x.t = "str" /\ AllDigits(x.s) /\ NatVal(x.s) >= 1
         THEN Ts(NatVal(x.s) * TicksPerDay)
    ELSE NaT

\* pd.to_datetime(d) of a datetime.date d: midnight of that day
DateToTs(d) == Ts(d * TicksPerDay)
\* Timestamp.date()
TsDate(x) == x.v \div TicksPerDay

\* the outstanding of one row, from its seven coerced monetary cells
OutstandingOf(ob, sv, sr, sio, pa, cb, cm) ==
    SubCell(SubCell(SubCell(SubCell(SubCell(AddCell(ob, sv), sr), sio), pa), cb), cm)

\* 0.01 and 0.002 in thousandths
ExecRatePerMille == 10
TeamLeaderRatePerMille == 2

normalize_columns(df_raw) ==
    [df_raw EXCEPT !.columns =
        [i \in 1..Len(df_raw.columns) |-> lower(strip(df_raw.columns[i]))]]

missing_columns(df) ==
    SelectSeq(REQUIRED_COLUMNS, LAMBDA c : ~HasCol(df, c))

\* lines 95-101 on one row: the date cell parsed, the cells of num_cols
\* coerced, every other cell kept
CoerceRow(columns, r) ==
    [j \in 1..Len(r) |->
        IF columns[j] = c_date THEN to_datetime(r[j])
        ELSE IF columns[j] \in Range(num_cols) THEN CoerceNumeric(r[j])
        ELSE r[j]]

\* lines 104-111 on one row: the two derived cells
DerivedCells(df, r) ==
    <<OutstandingOf(r[ColIdx(df, c_opening_balance)],
                    r[ColIdx(df, c_sales_value)],
                    r[ColIdx(df, c_sales_return)],
                    r[ColIdx(df, c_sales_in_and_out)],
                    r[ColIdx(df, c_paid_amount)],
                    r[ColIdx(df, c_cashback)],
                    r[ColIdx(df, c_commission)]),
      MulCell(r[ColIdx(df, c_paid_amount)], ExecRatePerMille)>>

\* lines 94-111: the column assignments are element-wise, so the frame is
\* derived row by row; the two new columns are appended (no upload of the
\* model has a column of their names)
derive_columns(df0) ==
    [columns |-> df0.columns \o <<c_outstanding, c_exec_commission_calc>>,
     data |->
        [i \in 1..NRows(df0) |->
            CoerceRow(df0.columns, df0.data[i])
                \o DerivedCells(df0, CoerceRow(df0.columns, df0.data[i]))]]

\* lines 90-112, on the frame whose column names are normalized
prepare_normalized(df0) ==
    IF missing_columns(df0) # <<>>
    THEN [df |-> None, missing |-> missing_columns(df0)]
    ELSE [df |-> derive_columns(df0), missing |-> <<>>]

\* validate_and_prepare(df_raw): the pair (df, missing)
validate_and_prepare(df_raw) ==
    CHOOSE res \in {prepare_normalized(df0) : df0 \in {normalize_columns(df_raw)}} : TRUE

\* ------------------------------------------------------------ aggregation
RECURSIVE SumCells(_)
\* Series.sum(): NaN cells are skipped, the sum of no cells is 0
SumCells(cells) ==
    IF cells = <<>> THEN 0
    ELSE (IF Head(cells).t = "num" THEN Head(cells).v ELSE 0) + SumCells(Tail(cells))

SumCol(df, c) == SumCells(GetCol(df, c))

\* Series.unique(): the distinct cells, NaN included
Unique(df, c) == Range(GetCol(df, c))

\* the keys of df.groupby(key): rows whose key is NaN or NaT are dropped
GroupKeys(df, key) == {k \in Unique(df, key) : k.t \notin {"nan", "nat"}}

\* df[df[c] == k]: the rows whose cell in column c is k, as a new frame
RowsWhere(df, c, k) ==
    [df EXCEPT !.data = SelectSeq(df.data, LAMBDA r : r[ColIdx(df, c)] = k)]

\* df.groupby(key)[val].sum(): one sum per key
GroupSum(df, key, val) ==
    [k \in GroupKeys(df, key) |-> SumCol(RowsWhere(df, key, k), val)]

RECURSIVE SumOver(_, _)
SumOver(f, keys) ==
    IF keys = {} THEN 0
    ELSE LET k == CHOOSE x \in keys : TRUE
         IN  f[k] + SumOver(f, keys \ {k})

\* the sum of all the values of a group table
TableTotal(tbl) == SumOver(tbl, DOMAIN tbl)

\* Series.mean() of a group table: the ratio sum / count, NaN when empty
Mean(tbl) ==
    IF DOMAIN tbl = {} THEN NaN
    ELSE [t |-> "ratio", n |-> TableTotal(tbl), d |-> Cardinality(DOMAIN tbl)]

\* ---------------------------------------------------------------- filters
\* df[(df['date'] >= to_datetime(date_from)) & (df['date'] <= to_datetime(date_to))]
\* a comparison with NaT is False
DateFilter(df, date_from, date_to) ==
    [df EXCEPT !.data =
        SelectSeq(df.data, LAMBDA r :
            LET d == r[ColIdx(df, c_date)]
            IN  /\ d.t = "ts"
                /\ d.v >= DateToTs(date_from).v
                /\ d.v <= DateToTs(date_to).v)]

\* the executive filter skipped when nothing is selected
IsinFilterEmptyMeansAll(df, selected) ==
    IF selected = {} THEN df
    ELSE [df EXCEPT !.data =
            SelectSeq(df.data, LAMBDA r : r[ColIdx(df, c_executive_name)] \in selected)]

\* df[df['executive name'].isin(selected)]
IsinFilter(df, selected) ==
    [df EXCEPT !.data =
        SelectSeq(df.data, LAMBDA r : r[ColIdx(df, c_executive_name)] \in selected)]

\* lines 195-198: an empty selection shows the whole view
SalesAnalysisFilter(df, exec_filter) ==
    IF exec_filter # {} THEN IsinFilter(df, exec_filter) ELSE df

\* the aggregates with the team leader commission at the executive rate
AggregationsExecRate(df) ==
    [total_sales |-> SumCol(df, c_sales_value),
     total_paid |-> SumCol(df, c_paid_amount),
     total_outstanding |-> SumCol(df, c_outstanding),
     total_exec_commission |-> SumCol(df, c_exec_commission_calc),
     team_leader_commission |-> SumCol(df, c_paid_amount) * ExecRatePerMille]

\* lines 158-162
Aggregations(df) ==
    [total_sales |-> SumCol(df, c_sales_value),
     total_paid |-> SumCol(df, c_paid_amount),
     total_outstanding |-> SumCol(df, c_outstanding),
     total_exec_commission |-> SumCol(df, c_exec_commission_calc),
     team_leader_commission |-> SumCol(df, c_paid_amount) * TeamLeaderRatePerMille]

\* Series.min() / Series.max() of the date column: NaT when no date is known
KnownDates(df) == {d \in Unique(df, c_date) : d.t = "ts"}
DateMin(df) ==
    IF KnownDates(df) = {} THEN NaT
    ELSE CHOOSE d \in KnownDates(df) : \A e \in KnownDates(df) : d.v <= e.v
DateMax(df) ==
    IF KnownDates(df) = {} THEN NaT
    ELSE CHOOSE d \in KnownDates(df) : \A e \in KnownDates(df) : d.v >= e.v

\* ----------------------------------------------------------- the uploads
DayText(d) == <<Digits[d + 1]>>

\* a date cell: the text of a day, a datetime cell later than midnight, or
\* a text that is no date
DateCells ==
    {Str(DayText(d)) : d \in 1..MaxDay}
        \cup {Ts(d * TicksPerDay + k) : d \in 1..MaxDay, k \in Ticks \ {0}}
        \cup {Str(<<"x">>)}
Execs == {Str(<<"A">>), Str(<<"B">>)}
Customers == {Str(<<"X">>), Str(<<"Y">>), NaN}

\* the seven monetary cells of a ledger line, in the order of num_cols
MoneyClean == <<Num(100), Num(50), Num(0), Num(0), Num(30), Num(5), Num(2)>>
MoneyMessy ==
    <<Str(<<"-","4">>), NaN, Str(<<"x">>), Num(1), Str(<<"2","0">>), Num(0 - 3), NaN>>

LedgerRow(date, exec, cust, money) == <<date, Num(1), exec, cust>> \o money

\* the ledger lines of the uploads: every date cell, a second executive,
\* and every customer cell with either set of monetary cells
RowPool ==
    {LedgerRow(d, Str(<<"A">>), Str(<<"X">>), MoneyClean) : d \in DateCells}
        \cup {LedgerRow(Str(DayText(1)), Str(<<"B">>), Str(<<"X">>), MoneyClean)}
        \cup {LedgerRow(Str(DayText(1)), Str(<<"A">>), c, m) :
                c \in Customers, m \in {MoneyClean, MoneyMessy}}

RowSeqs == UNION {[1..n -> RowPool] : n \in 0..MaxRows}

\* how a user may write a required column name in the header row
Styled(name, style) ==
    CASE style = "exact" -> name
      [] style = "upper" -> upper(name)
      [] style = "padded" -> <<" ">> \o name \o <<"\t">>
      [] style = "mixed" -> <<" ", upper(name)[1]>> \o Tail(name)
Styles == {"exact", "upper", "padded", "mixed"}
c_notes == <<"N","o","t","e","s">>
c_region == <<"r","e","g","i","o","n">>

\* the frame read from a file that has the required columns `present`
\* (indices of REQUIRED_COLUMNS), written in `style`, followed by the
\* columns `extras`; every ledger line keeps the cells of its columns
RECURSIVE Pick(_, _, _)
Pick(s, present, i) ==
    IF i > Len(s) THEN <<>>
    ELSE (IF i \in present THEN <<s[i]>> ELSE <<>>) \o Pick(s, present, i + 1)
Frame(present, style, extras, rows) ==
    [columns |->
        Pick([i \in 1..11 |-> Styled(REQUIRED_COLUMNS[i], style)], present, 1) \o extras,
     data |->
        [i \in 1..Len(rows) |->
            Pick(rows[i], present, 1) \o [j \in 1..Len(extras) |-> NaN]]]

UploadedFile(readable, content) == [readable |-> readable, content |-> content]
Unreadable == UploadedFile(FALSE, [columns |-> <<>>, data |-> <<>>])

Files ==
    {UploadedFile(TRUE, Frame(1..11, "exact", <<>>, rows)) : rows \in RowSeqs}
        \cup {UploadedFile(TRUE, Frame(1..11, "mixed", <<c_notes>>, rows)) :
                rows \in {r \in RowSeqs : Len(r) = 1}}
        \cup {UploadedFile(TRUE, Frame(1..10, "exact", <<>>, rows)) :
                rows \in {r \in RowSeqs : Len(r) = 1}}
        \cup {Unreadable}

Days == 1..MaxDay
Navs == {"Home", "Dashboard", "Sales Analysis", "Customer Analysis",
         "All Customer Outstanding"}

\* ------------------------------------------------------------- the state
VARIABLES
    nav,                  \* the page chosen in the sidebar
    uploaded_file,        \* the file held by the uploader, or None
    pc,                   \* the line the run has reached, "end" when it is over
    raw,                  \* the frame read from the file
    df,                   \* the derived record set
    missing,              \* the missing columns reported by validation
    error,                \* the failure that ended the run, "" when none
    date_range,           \* <<date_from, date_to>> once picked, else <<>>
    df_filtered,          \* the filtered view
    selected_executives,  \* the sidebar selection
    totals,               \* the scalar aggregates
    page                  \* what the page has shown and exported

vars == <<nav, uploaded_file, pc, raw, df, missing, error, date_range,
          df_filtered, selected_executives, totals, page>>

\* the script's variables at the top of a run
FreshRun ==
    /\ raw' = None
    /\ df' = None
    /\ missing' = <<>>
    /\ error' = ""
    /\ date_range' = <<>>
    /\ df_filtered' = None
    /\ selected_executives' = {}
    /\ totals' = None
    /\ page' = None

Init ==
    /\ nav = "Home"
    /\ uploaded_file = None
    /\ pc = "L59"
    /\ raw = None
    /\ df = None
    /\ missing = <<>>
    /\ error = ""
    /\ date_range = <<>>
    /\ df_filtered = None
    /\ selected_executives = {}
    /\ totals = None
    /\ page = None

\* st.stop(), or an exception that ends the run
Stop(err) ==
    /\ pc' = "end"
    /\ error' = err

\* lines 59-80: the Home page ends the run before the uploader is shown
Home ==
    /\ pc = "L59"
    /\ nav = "Home"
    /\ page' = [shown |-> "home"]
    /\ Stop("")
    /\ UNCHANGED <<nav, uploaded_file, raw, df, missing, date_range,
                   df_filtered, selected_executives, totals>>

\* lines 114, 133-135: nothing uploaded
NoUpload ==
    /\ pc = "L59"
    /\ nav # "Home"
    /\ uploaded_file = None
    /\ Stop("")
    /\ UNCHANGED <<nav, uploaded_file, raw, df, missing, date_range,
                   df_filtered, selected_executives, totals, page>>

\* lines 114-123: read the file; a read failure ends the run
ReadFile ==
    /\ pc = "L59"
    /\ nav # "Home"
    /\ uploaded_file # None
    /\ IF uploaded_file.readable
       THEN /\ raw' = uploaded_file.content
            /\ pc' = "L125"
            /\ error' = ""
       ELSE /\ raw' = None
            /\ Stop("FileReadError")
    /\ UNCHANGED <<nav, uploaded_file, df, missing, date_range,
                   df_filtered, selected_executives, totals, page>>

\* lines 125-132: validate and derive; missing columns end the run.  The
\* sidebar line shows DateMin and DateMax (NaT.date() is NaT, no failure).
Prepare ==
    /\ pc = "L125"
    /\ \E r \in {validate_and_prepare(raw)} :
           /\ df' = r.df
           /\ missing' = r.missing
           /\ IF r.missing # <<>> THEN Stop("MissingColumns")
              ELSE pc' = "L138" /\ error' = ""
    /\ UNCHANGED <<nav, uploaded_file, raw, date_range,
                   df_filtered, selected_executives, totals, page>>

\* lines 138-139 when no record has a known date (min_date and max_date are
\* NaT): the date picker is given NaT as its default dates and raises on
\* formatting them (NaT supports neither timetuple nor strftime: ValueError),
\* which ends the run
DateInputFails ==
    /\ pc = "L138"
    /\ DateMin(df).t = "nat"
    /\ Stop("ValueError")
    /\ UNCHANGED <<nav, uploaded_file, raw, df, missing, date_range,
                   df_filtered, selected_executives, totals, page>>

\* the date filter applied without the check of the range
DateRangeUnchecked ==
    /\ pc = "L138"
    /\ DateMin(df).t = "ts"
    /\ \E date_from \in Days, date_to \in Days :
        /\ date_range' = <<date_from, date_to>>
        /\ df_filtered' = DateFilter(df, date_from, date_to)
        /\ pc' = "L149"
        /\ error' = ""
    /\ UNCHANGED <<nav, uploaded_file, raw, df, missing,
                   selected_executives, totals, page>>

\* lines 138-146: the date range picked in the sidebar; a range that ends
\* before it starts ends the run, any other range filters the record set
DateRange ==
    /\ pc = "L138"
    /\ DateMin(df).t = "ts"
    /\ \E date_from \in Days, date_to \in Days :
        /\ date_range' = <<date_from, date_to>>
        /\ IF date_from > date_to
           THEN /\ Stop("InvalidRange")
                /\ df_filtered' = None
           ELSE /\ df_filtered' = DateFilter(df, date_from, date_to)
                /\ pc' = "L149"
                /\ error' = ""
    /\ UNCHANGED <<nav, uploaded_file, raw, df, missing,
                   selected_executives, totals, page>>

\* the executive filter applied to the base record set instead of the
\* date-filtered view
ExecutiveFilterOnBase ==
    /\ pc = "L149"
    /\ \E selected \in SUBSET Unique(df_filtered, c_executive_name) :
        /\ selected_executives' = selected
        /\ df_filtered' = IsinFilter(df, selected)
        /\ totals' = Aggregations(IsinFilter(df, selected))
    /\ pc' = "L165"
    /\ UNCHANGED <<nav, uploaded_file, raw, df, missing, error, date_range, page>>

\* lines 149-162: the executives picked among those of the view, the
\* executive filter, and the scalar aggregates
ExecutiveFilter ==
    /\ pc = "L149"
    /\ \E selected \in SUBSET Unique(df_filtered, c_executive_name) :
        /\ selected_executives' = selected
        /\ df_filtered' = IsinFilter(df_filtered, selected)
        /\ totals' = Aggregations(IsinFilter(df_filtered, selected))
    /\ pc' = "L165"
    /\ UNCHANGED <<nav, uploaded_file, raw, df, missing, error, date_range, page>>

\* lines 165-190
Dashboard ==
    /\ pc = "L165"
    /\ nav = "Dashboard"
    /\ page' =
        [shown |-> "dashboard",
         sales_exec |->
            [sales |-> GroupSum(df_filtered, c_executive_name, c_sales_value),
             paid |-> GroupSum(df_filtered, c_executive_name, c_paid_amount)],
         cust_out |-> GroupSum(df_filtered, c_customer_name, c_outstanding),
         trend |->
            [sales |-> GroupSum(df_filtered, c_date, c_sales_value),
             paid |-> GroupSum(df_filtered, c_date, c_paid_amount)]]
    /\ pc' = "end"
    /\ UNCHANGED <<nav, uploaded_file, raw, df, missing, error, date_range,
                   df_filtered, selected_executives, totals>>

\* lines 192-206
SalesAnalysis ==
    /\ pc = "L165"
    /\ nav = "Sales Analysis"
    /\ \E exec_filter \in SUBSET Unique(df_filtered, c_executive_name) :
        page' =
            [shown |-> "sales analysis",
             exec_filter |-> exec_filter,
             df_sa |-> SalesAnalysisFilter(df_filtered, exec_filter),
             export |-> SalesAnalysisFilter(df_filtered, exec_filter)]
    /\ pc' = "end"
    /\ UNCHANGED <<nav, uploaded_file, raw, df, missing, error, date_range,
                   df_filtered, selected_executives, totals>>

\* lines 208-232
CustomerAnalysis ==
    /\ pc = "L165"
    /\ nav = "Customer Analysis"
    /\ LET cust_sales == GroupSum(df_filtered, c_customer_name, c_sales_value)
           cust_paid == GroupSum(df_filtered, c_customer_name, c_paid_amount)
           cust_outs == GroupSum(df_filtered, c_customer_name, c_outstanding)
       IN  \E customer \in
                IF DOMAIN cust_sales = {} THEN {None} ELSE DOMAIN cust_sales :
             page' =
                [shown |-> "customer analysis",
                 total_customers |-> Cardinality(Unique(df_filtered, c_customer_name)),
                 avg_sales |-> Mean(cust_sales),
                 avg_outstanding |-> Mean(cust_outs),
                 cust |-> [sales |-> cust_sales, paid |-> cust_paid,
                           outstanding |-> cust_outs],
                 customer |-> customer,
                 profile |->
                    IF customer = None THEN None
                    ELSE RowsWhere(df_filtered, c_customer_name, customer)]
    /\ pc' = "end"
    /\ UNCHANGED <<nav, uploaded_file, raw, df, missing, error, date_range,
                   df_filtered, selected_executives, totals>>

\* lines 234-243
AllCustomerOutstanding ==
    /\ pc = "L165"
    /\ nav = "All Customer Outstanding"
    /\ page' =
        [shown |-> "all customer outstanding",
         cust_outstanding |-> GroupSum(df_filtered, c_customer_name, c_outstanding),
         export |-> GroupSum(df_filtered, c_customer_name, c_outstanding)]
    /\ pc' = "end"
    /\ UNCHANGED <<nav, uploaded_file, raw, df, missing, error, date_range,
                   df_filtered, selected_executives, totals>>

\* line 48: the user picks a page; the script is re-run from the top
Navigate ==
    /\ pc = "end"
    /\ \E n \in Navs \ {nav} : nav' = n
    /\ pc' = "L59"
    /\ FreshRun
    /\ UNCHANGED uploaded_file

\* line 83: the user uploads a file; the script is re-run from the top
Upload ==
    /\ pc = "end"
    /\ nav # "Home"
    /\ uploaded_file = None
    /\ \E f \in Files : uploaded_file' = f
    /\ pc' = "L59"
    /\ FreshRun
    /\ UNCHANGED nav

Next ==
    \/ Home
    \/ NoUpload
    \/ ReadFile
    \/ Prepare
    \/ DateInputFails
    \/ DateRange
    \/ ExecutiveFilter
    \/ Dashboard
    \/ SalesAnalysis
    \/ CustomerAnalysis
    \/ AllCustomerOutstanding
    \/ Navigate
    \/ Upload

Spec == Init /\ [][Next]_vars

\* ------------------------------------------- loading and deriving, alone
\* A run on the Dashboard page with a file in the uploader, followed up to
\* the end of validate_and_prepare, over a wider set of files than Spec's.
PrepareInit(file) ==
    /\ nav = "Dashboard"
    /\ uploaded_file = file
    /\ pc = "L59"
    /\ raw = None
    /\ df = None
    /\ missing = <<>>
    /\ error = ""
    /\ date_range = <<>>
    /\ df_filtered = None
    /\ selected_executives = {}
    /\ totals = None
    /\ page = None

NextPrepare ==
    \/ ReadFile
    \/ Prepare

\* headers: any subset of the required columns, in any of the styles, with
\* any of the other columns after them; one clean ledger line
ExtraColumns == {<<>>, <<c_notes>>, <<c_region>>, <<c_notes, c_region>>}
CleanRow == LedgerRow(Str(DayText(1)), Str(<<"A">>), Str(<<"X">>), MoneyClean)

InitColumns ==
    \E present \in SUBSET (1..11), style \in Styles, extras \in ExtraColumns :
        PrepareInit(UploadedFile(TRUE, Frame(present, style, extras, <<CleanRow>>)))

SpecColumns == InitColumns /\ [][NextPrepare]_vars

\* ledger lines: every mix of missing, unparsable, textual, zero, positive
\* and negative cells in the seven monetary columns
MoneyCells ==
    {NaN, Str(<<"x">>), Str(<<"-","1","2">>), Num(0), Num(7), Num(0 - 5)}

InitDerive ==
    \E money \in [1..7 -> MoneyCells] :
        PrepareInit(UploadedFile(TRUE,
            Frame(1..11, "exact", <<>>,
                  <<LedgerRow(Str(DayText(1)), Str(<<"A">>), Str(<<"X">>), money)>>)))

SpecDerive == InitDerive /\ [][NextPrepare]_vars

\* ------------------------------------------------------------ the claims
\* the number a monetary cell of the upload stands for: itself, the number
\* its text writes, or zero when it is missing or writes no number
Amount(x) ==
    IF x.t = "num" THEN x.v
    ELSE IF x.t = "str" /\ IsNumericText(x.s) THEN NumericTextVal(x.s)
    ELSE 0

\* the cell of column c in row i of the upload, as read
RawCell(i, c) == raw.data[i][ColIdx(df, c)]

\* C1: every derived record has outstanding = opening balance + sales value
\* - sales return - sales in and out - paid amount - cashback - commission,
\* over the seven inputs with missing and unparsable ones counted as zero;
\* it is a number, never null.
C1_OutstandingFormula ==
    df # None =>
        /\ NRows(df) = NRows(raw)
        /\ \A i \in 1..NRows(df) :
            GetCol(df, c_outstanding)[i] =
                Num(Amount(RawCell(i, c_opening_balance))
                    + Amount(RawCell(i, c_sales_value))
                    - Amount(RawCell(i, c_sales_return))
                    - Amount(RawCell(i, c_sales_in_and_out))
                    - Amount(RawCell(i, c_paid_amount))
                    - Amount(RawCell(i, c_cashback))
                    - Amount(RawCell(i, c_commission)))

\* a derived record whose inputs mix unparsable, missing, negative, textual,
\* positive and zero cells: 0 + 0 - (-5) - (-12) - 7 - 0 - 7 = 3
C1_Witness ==
    /\ df # None
    /\ NRows(df) = 1
    /\ RawCell(1, c_opening_balance) = Str(<<"x">>)
    /\ RawCell(1, c_sales_value) = NaN
    /\ RawCell(1, c_sales_return) = Num(0 - 5)
    /\ RawCell(1, c_sales_in_and_out) = Str(<<"-","1","2">>)
    /\ RawCell(1, c_paid_amount) = Num(7)
    /\ RawCell(1, c_cashback) = Num(0)
    /\ RawCell(1, c_commission) = Num(7)
    /\ GetCol(df, c_outstanding)[1] = Num(3)

\* the ways a required column name may be written in a header
Written(c) == {Styled(c, style) : style \in Styles}
\* the required names that no column of the upload writes
AbsentRequired ==
    {c \in Range(REQUIRED_COLUMNS) :
        \A j \in 1..Len(raw.columns) : raw.columns[j] \notin Written(c)}

\* C2: validation reports missing columns iff a required name is absent
\* after lower-casing and trimming; the list is exactly the absent required
\* names, whatever other columns there are; no record set is returned then.
C2_MissingColumnsExact ==
    pc \in {"L138", "end"} =>
        /\ (error = "MissingColumns") <=> (AbsentRequired # {})
        /\ Range(missing) = AbsentRequired
        /\ Len(missing) = Cardinality(AbsentRequired)
        /\ (AbsentRequired # {}) => (df = None)
        /\ (AbsentRequired = {}) => (df # None)

\* only `commission` is dropped, the other names are padded, and two other
\* columns are present
C2_Witness ==
    /\ pc = "end"
    /\ error = "MissingColumns"
    /\ missing = <<c_commission>>
    /\ raw.columns[1] = Styled(c_date, "padded")
    /\ c_notes \in Range(raw.columns)
    /\ c_region \in Range(raw.columns)
    /\ df = None

\* C3: a file read error, missing columns and date_from > date_to each end
\* the run at their stage: nothing of a later stage exists in that run.
C3_FailuresTerminal ==
    /\ (pc # "L59" /\ nav # "Home" /\ uploaded_file # None /\ ~uploaded_file.readable)
            => error = "FileReadError"
    /\ (date_range # <<>> /\ date_range[1] > date_range[2]) => error = "InvalidRange"
    /\ (pc \notin {"L59", "L125"} /\ raw # None /\ missing # <<>>)
            => error = "MissingColumns"
    /\ error = "FileReadError" =>
            /\ pc = "end"
            /\ raw = None /\ df = None /\ date_range = <<>>
            /\ df_filtered = None /\ totals = None /\ page = None
    /\ error = "MissingColumns" =>
            /\ pc = "end"
            /\ df = None /\ date_range = <<>>
            /\ df_filtered = None /\ totals = None /\ page = None
    /\ error = "InvalidRange" =>
            /\ pc = "end"
            /\ df_filtered = None /\ selected_executives = {}
            /\ totals = None /\ page = None

\* a run ended by date_from > date_to on a valid record set
C3_Witness ==
    /\ error = "InvalidRange"
    /\ date_range = <<2, 1>>
    /\ df # None
    /\ NRows(df) = 2
    /\ pc = "end"

\* C4 as claimed: a record with a known date is in the date-filtered view
\* iff its calendar date lies in [date_from, date_to], at any time of day.
C4_InclusiveBothBounds ==
    pc = "L149" =>
        \A i \in 1..NRows(df) :
            LET d == GetCol(df, c_date)[i]
            IN  d.t = "ts" =>
                    ((df.data[i] \in Range(df_filtered.data))
                        <=> (date_range[1] <= TsDate(d) /\ TsDate(d) <= date_range[2]))

\* C5 as claimed: an empty selection yields an empty view, in the sidebar
\* filter and in the Sales Analysis selection.
C5_EmptySelectionEmptyView ==
    /\ (pc \in {"L165", "end"} /\ df_filtered # None /\ selected_executives = {})
            => NRows(df_filtered) = 0
    /\ (page # None /\ page.shown = "sales analysis" /\ page.exec_filter = {})
            => NRows(page.df_sa) = 0

\* C5 as amended: an empty sidebar selection yields an empty view; an empty
\* Sales Analysis selection shows the whole view left by the sidebar filter.
C5_EmptySelectionAmended ==
    /\ (pc \in {"L165", "end"} /\ df_filtered # None /\ selected_executives = {})
            => NRows(df_filtered) = 0
    /\ (page # None /\ page.shown = "sales analysis" /\ page.exec_filter = {})
            => page.df_sa = df_filtered

\* the sidebar selection is emptied on a range that holds records, and the
\* Sales Analysis page is shown without a selection
C5_Witness ==
    /\ page # None
    /\ page.shown = "sales analysis"
    /\ page.exec_filter = {}
    /\ selected_executives = {}
    /\ NRows(DateFilter(df, date_range[1], date_range[2])) = 2
    /\ NRows(df_filtered) = 0

\* C6 as claimed: the group-by-customer outstanding sums add up to the total
\* outstanding of the same view.
C6_CustomerGroupsSumToTotal ==
    (pc = "end" /\ page # None) =>
        /\ page.shown = "dashboard"
                => TableTotal(page.cust_out) = totals.total_outstanding
        /\ page.shown = "all customer outstanding"
                => TableTotal(page.cust_outstanding) = totals.total_outstanding
        /\ page.shown = "customer analysis"
                => TableTotal(page.cust.outstanding) = totals.total_outstanding

\* C7 as claimed: on an empty view the totals are zero, the group tables
\* are empty and the per-customer averages are not NaN.
C7_EmptyViewTolerated ==
    (pc = "end" /\ page # None /\ df_filtered # None /\ NRows(df_filtered) = 0) =>
        /\ totals = [total_sales |-> 0, total_paid |-> 0, total_outstanding |-> 0,
                     total_exec_commission |-> 0, team_leader_commission |-> 0]
        /\ page.shown = "dashboard" =>
                /\ DOMAIN page.sales_exec.sales = {}
                /\ DOMAIN page.cust_out = {}
                /\ DOMAIN page.trend.sales = {}
        /\ page.shown = "all customer outstanding" => DOMAIN page.cust_outstanding = {}
        /\ page.shown = "customer analysis" =>
                /\ DOMAIN page.cust.sales = {}
                /\ page.avg_sales.t # "nan"
                /\ page.avg_outstanding.t # "nan"

RECURSIVE PaidUpTo(_, _)
\* the paid amounts of the first n records of a frame, added one by one
PaidUpTo(frame, n) ==
    IF n = 0 THEN 0
    ELSE PaidUpTo(frame, n - 1) + frame.data[n][ColIdx(frame, c_paid_amount)].v

C9_UnknownDateNoError ==
    /\ df # None =>
        /\ NRows(df) = NRows(raw)
        /\ \A i \in 1..NRows(df) :
            RawCell(i, c_date) = Str(<<"x">>) => GetCol(df, c_date)[i] = NaT
        /\ (NRows(df) > 0) => error # "ValueError"
    /\ pc = "L149" =>
        \A i \in 1..NRows(df_filtered) : GetCol(df_filtered, c_date)[i] # NaT

RECURSIVE IsSubSeq(_, _)
\* s is t with some elements left out
IsSubSeq(s, t) ==
    IF s = <<>> THEN TRUE
    ELSE IF t = <<>> THEN FALSE
    ELSE IF Head(s) = Head(t) THEN IsSubSeq(Tail(s), Tail(t))
    ELSE IsSubSeq(s, Tail(t))

\* after the two filters: the view has the columns of the base set, is a
\* part of it, and is returned by filtering it again by the same date range
\* and the same executives
C10_ViewOfBase ==
    (pc \in {"L165", "end"} /\ df_filtered # None) =>
        /\ df_filtered.columns = df.columns
        /\ IsSubSeq(df_filtered.data, df.data)
        /\ IsinFilter(DateFilter(df_filtered, date_range[1], date_range[2]),
                      selected_executives) = df_filtered

\* C10: filtering leaves the base record set unchanged (the date filter and
\* the executive filter are the steps taken at L138 and L149), the view is a
\* part of the base set, and filtering the view again by the same date range
\* and the same executives returns the view.
C10_FilterPureIdempotent ==
    /\ []C10_ViewOfBase
    /\ [][(pc \in {"L138", "L149"}) => (df' = df)]_vars

\* a view of one of two records, left by both filters
C10_Witness ==
    /\ pc = "L165"
    /\ NRows(df) = 2
    /\ NRows(df_filtered) = 1
    /\ Cardinality(Unique(df, c_executive_name)) = 2
    /\ Cardinality(selected_executives) = 1
====
